---- MODULE Spec2Model ----
(***************************************************************************)
(* Model of app_calendar.py: the label normaliser (clean_label), the       *)
(* record loader (load_calendar_data, load_all_sources) and the dynamic    *)
(* month layout (draw_calendar_base_dynamic, draw_calendar_labels_dynamic).*)
(*                                                                         *)
(* Strings are sequences of tokens.  A token is a maximal run of regex     *)
(* word characters (a "word": SWITCHGEAR, 3A, 12), one whitespace          *)
(* character (" " or a tab) or one other non-word character (".").  Two    *)
(* adjacent word tokens read as one longer word, exactly as the regex      *)
(* engine would read their concatenation.                                  *)
(*                                                                         *)
(* Lengths are in hundredths of an axis unit (1.0 = 100), so that the      *)
(* layout arithmetic is exact integer arithmetic.                          *)
(***************************************************************************)
EXTENDS Integers, Sequences, FiniteSets, TLC

VARIABLES
    pc,            \* position of the script: which step has run
    category,      \* label spec: raw "OFCI Equipment Category" cell
    unitTag,       \* label spec: raw "Unit Tag" cell
    label,         \* label spec: TaskLabel computed for (category, unitTag)
    table1,        \* rows read from the CMH116 workbook
    table2,        \* rows read from the CMH120 workbook
    df,            \* the loaded dataframe (sequence of surviving records)
    year,          \* year chosen for the last render (0 before any render)
    month,         \* month chosen for the last render (0 before any render)
    layout,        \* what draw_calendar_base_dynamic returned and drew
    texts          \* the labels drawn by draw_calendar_labels_dynamic

vars == <<pc, category, unitTag, label, table1, table2, df, year, month, layout, texts>>

-----------------------------------------------------------------------------
(* Tokens *)

SP == " "
TAB == "\t"
DOT == "."

IsSpace(t) == t \in {SP, TAB}

IsWord(t) == ~IsSpace(t) /\ t # DOT

\* re.IGNORECASE: the case-folded form of a token
Fold(t) ==
    CASE t = "switchgear" -> "SWITCHGEAR"
      [] t = "Phase" -> "PHASE"
      [] t = "phase" -> "PHASE"
      [] t = "gen" -> "GEN"
      [] OTHER -> t

\* \d+ : the token is a run of digits
IsDigits(t) == t \in {"1", "3", "12"}

-----------------------------------------------------------------------------
(* clean_label *)

\* the replacements dict, in insertion order; patterns are written folded
replacements ==
    << [pat |-> <<"SWITCHGEAR">>,           repl |-> <<"SWGR">>],
       [pat |-> <<"LV", SP, "SWITCHGEAR">>, repl |-> <<"LV", SP, "SWGR">>],
       [pat |-> <<"MV", SP, "SWITCHGEAR">>, repl |-> <<"MV", SP, "SWGR">>],
       [pat |-> <<"GENERATOR">>,            repl |-> <<>>],
       [pat |-> <<"GEN">>,                  repl |-> <<"GEN">>],
       [pat |-> <<"TRANSFORMER">>,          repl |-> <<>>],
       [pat |-> <<"PANELS">>,               repl |-> <<>>],
       [pat |-> <<"SWGR", SP, "SWGR">>,     repl |-> <<"SWGR">>],
       [pat |-> <<"LV", SP, "LV">>,         repl |-> <<"LV">>],
       [pat |-> <<"MARS">>,                 repl |-> <<"Racking">>] >>

\* \bPAT\b matches in s at position i (case-insensitively)
MatchAt(pat, s, i) ==
    /\ i + Len(pat) - 1 <= Len(s)
    /\ \A j \in 1..Len(pat) : Fold(s[i + j - 1]) = pat[j]
    /\ (i = 1 \/ ~IsWord(s[i - 1]))
    /\ (i + Len(pat) - 1 = Len(s) \/ ~IsWord(s[i + Len(pat)]))

\* re.sub(pattern, repl, s) from position i on: leftmost non-overlapping
\* matches, left to right; replaced text is not scanned again
RECURSIVE SubFrom(_, _, _, _)
SubFrom(pat, repl, s, i) ==
    IF i > Len(s) THEN <<>>
    ELSE IF MatchAt(pat, s, i)
         THEN repl \o SubFrom(pat, repl, s, i + Len(pat))
         ELSE <<s[i]>> \o SubFrom(pat, repl, s, i + 1)

re_sub(pat, repl, s) == SubFrom(pat, repl, s, 1)

\* the first k rules of a rule list applied in order, each to the result of
\* the one before
RECURSIVE ApplySeq(_, _, _)
ApplySeq(s, rules, k) ==
    IF k = 0 THEN s
    ELSE re_sub(rules[k].pat, rules[k].repl, ApplySeq(s, rules, k - 1))

\* the for loop over replacements.items()
ApplyRules(s) == ApplySeq(s, replacements, Len(replacements))

\* re.sub(r"\s+", " ", s)
RECURSIVE CollapseSpace(_)
CollapseSpace(s) ==
    IF s = <<>> THEN <<>>
    ELSE IF IsSpace(Head(s))
         THEN IF Len(s) > 1 /\ IsSpace(s[2])
              THEN CollapseSpace(Tail(s))
              ELSE <<SP>> \o CollapseSpace(Tail(s))
         ELSE <<Head(s)>> \o CollapseSpace(Tail(s))

\* str.strip()
RECURSIVE Strip(_)
Strip(s) ==
    IF s = <<>> THEN <<>>
    ELSE IF IsSpace(Head(s)) THEN Strip(Tail(s))
    ELSE IF IsSpace(s[Len(s)]) THEN Strip(SubSeq(s, 1, Len(s) - 1))
    ELSE s

\* the rule list with the two duplicate-collapse rules moved to the front
CollapseFirst ==
    <<replacements[8], replacements[9]>> \o SubSeq(replacements, 1, 7)
        \o <<replacements[10]>>

clean_label_CollapseFirst(s) ==
    Strip(CollapseSpace(ApplySeq(s, CollapseFirst, Len(CollapseFirst))))

clean_label(s) == Strip(CollapseSpace(ApplyRules(s)))

\* deliveries[unit_tag_col].replace("ALL UNITS", ""): whole-value, exact case
ALL_UNITS == <<"ALL", SP, "UNITS">>

ReplaceAllUnits(u) == IF u = ALL_UNITS THEN <<>> ELSE u

\* TaskLabel = category + " " + unit tag, then clean_label
TaskLabel(c, u) == clean_label(c \o <<SP>> \o u)

-----------------------------------------------------------------------------
(* load_calendar_data *)

\* a missing cell (what read_excel yields for an empty cell)
NaN == <<"NaN">>

\* a date cell: kind "nan" (missing), "bad" (text that does not parse) or
\* "ts" (parses to the timestamp y-m-d plus tod minutes after midnight)
DateCell(k, y, m, d, tod) == [kind |-> k, y |-> y, m |-> m, d |-> d, tod |-> tod]

NaT == DateCell("NaT", 0, 0, 0, 0)

Row(c, u, dt) == [cat |-> c, unit |-> u, date |-> dt]

\* dropna(subset=[category, unit tag, date]) keeps the row
HasRequired(r) == r.cat # NaN /\ r.unit # NaN /\ r.date.kind # "nan"

\* the pattern without its closing $: "Phase", whitespace, then a word that
\* begins with a digit
PhaseMatch_NoEnd(s) ==
    /\ Len(s) >= 3
    /\ Fold(s[1]) = "PHASE"
    /\ \E a \in 2..(Len(s) - 1) :
          /\ \A j \in 2..a : IsSpace(s[j])
          /\ s[a + 1] \in {"1", "3", "12", "3A"}

\* str.match(r"(?i)^Phase\s+\d+$")
PhaseMatch(s) ==
    /\ Len(s) >= 3
    /\ Fold(s[1]) = "PHASE"
    /\ \E a \in 2..(Len(s) - 1) :
          /\ \A j \in 2..a : IsSpace(s[j])
          /\ \A j \in (a + 1)..Len(s) : IsDigits(s[j])

\* pd.to_datetime(cell, errors="coerce")
to_datetime(dt) == IF dt.kind = "ts" THEN dt ELSE NaT

\* one row after lines 47-61: unit tag emptied, TaskLabel, Source, parsed date
Derive(r, source_label) ==
    [cat       |-> r.cat,
     unit      |-> ReplaceAllUnits(r.unit),
     TaskLabel |-> TaskLabel(r.cat, ReplaceAllUnits(r.unit)),
     Source    |-> source_label,
     date      |-> to_datetime(r.date)]

\* the two filters applied to a derived row: the Phase filter (line 57) and
\* dropna on the parsed date (line 62)
KeepRecord(rec) == ~PhaseMatch(rec.TaskLabel) /\ rec.date # NaT

RECURSIVE MapDerive(_, _)
MapDerive(rows, source_label) ==
    IF rows = <<>> THEN <<>>
    ELSE <<Derive(Head(rows), source_label)>> \o MapDerive(Tail(rows), source_label)

load_calendar_data(rows, source_label) ==
    SelectSeq(MapDerive(SelectSeq(rows, HasRequired), source_label), KeepRecord)

\* pd.concat([df1, df2], ignore_index=True)
load_all_sources(t1, t2) ==
    load_calendar_data(t1, "CMH116") \o load_calendar_data(t2, "CMH120")

-----------------------------------------------------------------------------
(* calendar.monthcalendar with calendar.setfirstweekday(calendar.SUNDAY) *)

SUNDAY == 6

IsLeap(y) == y % 4 = 0 /\ (y % 100 # 0 \/ y % 400 = 0)

DaysInMonth(y, m) ==
    IF m = 2 THEN (IF IsLeap(y) THEN 29 ELSE 28)
    ELSE IF m \in {4, 6, 9, 11} THEN 30 ELSE 31

RECURSIVE DaysBeforeMonth(_, _)
DaysBeforeMonth(y, m) ==
    IF m = 1 THEN 0 ELSE DaysBeforeMonth(y, m - 1) + DaysInMonth(y, m - 1)

DaysBeforeYear(y) ==
    (y - 1) * 365 + ((y - 1) \div 4) - ((y - 1) \div 100) + ((y - 1) \div 400)

\* weekday of a date, Monday = 0
weekday(y, m, d) == (DaysBeforeYear(y) + DaysBeforeMonth(y, m) + d + 6) % 7

\* the month grid: weeks of 7 slots, Sunday first, 0 for a day outside the
\* month (weeks and columns are numbered from 1 here, from 0 in the code)
monthcalendar(y, m) ==
    LET before == (weekday(y, m, 1) + 7 - SUNDAY) % 7
        ndays  == DaysInMonth(y, m)
        nweeks == (before + ndays + 6) \div 7
    IN  [w \in 1..nweeks |->
            [d \in 1..7 |->
                LET n == (w - 1) * 7 + d - before
                IN  IF n >= 1 /\ n <= ndays THEN n ELSE 0]]

-----------------------------------------------------------------------------
(* draw_calendar_base_dynamic *)

default_height == 100
line_height == 15
date_padding == 12
FixedMargin == 10
TopGap == 2
LabelShift == 8

Max2(a, b) == IF a >= b THEN a ELSE b

\* df[date_column] == pd.Timestamp(year, month, day): equality of timestamps
SameTimestamp(dt, y, m, day) ==
    dt.kind = "ts" /\ dt.y = y /\ dt.m = m /\ dt.d = day /\ dt.tod = 0

\* positions (in dataframe order) of the rows selected by
\* df[df[date_column] == day_date]
Tasks(frame, y, m, day) ==
    SelectSeq([k \in 1..Len(frame) |-> k],
              LAMBDA k : SameTimestamp(frame[k].date, y, m, day))

RECURSIVE SeqMax(_)
SeqMax(s) == IF s = <<>> THEN 0 ELSE Max2(Head(s), SeqMax(Tail(s)))

RECURSIVE SeqSum(_, _)
SeqSum(s, k) == IF k = 0 THEN 0 ELSE s[k] + SeqSum(s, k - 1)

\* needed = date_padding + max(0, week_max - 1) * line_height + 0.1
needed(week_max) == date_padding + Max2(0, week_max - 1) * line_height + FixedMargin

\* the row height without the default minimum
week_height_NoDefault(week_max) == needed(week_max)

\* the fixed row height of a uniform grid
week_height_Fixed(week_max) == default_height

\* h = max(default_height, needed)
week_height(week_max) == Max2(default_height, needed(week_max))

\* row tops of a uniform grid: every row above counted at the default height
week_top_Uniform(heights, w) == -((w - 1) * default_height + TopGap)

\* y_top = -(cumulative + 0.02), cumulative = heights of the weeks above
week_top(heights, w) == -(SeqSum(heights, w - 1) + TopGap)

draw_calendar_base_dynamic(frame, y, m) ==
    LET md == monthcalendar(y, m)
        tpd == [w \in 1..Len(md) |->
                  [d \in 1..7 |->
                      IF md[w][d] # 0 THEN Len(Tasks(frame, y, m, md[w][d])) ELSE 0]]
        mx == [w \in 1..Len(md) |-> SeqMax(tpd[w])]
        hs == [w \in 1..Len(md) |-> week_height(mx[w])]
        tops == [w \in 1..Len(md) |-> week_top(hs, w)]
    IN  [month_days         |-> md,
         tasks_per_day      |-> tpd,
         max_tasks_per_week |-> mx,
         week_heights       |-> hs,
         week_tops          |-> tops,
         rects |-> {[w |-> w, d |-> d, day |-> md[w][d],
                     top |-> tops[w], bottom |-> tops[w] - hs[w]] :
                       <<w, d>> \in {c \in (1..Len(md)) \X (1..7) : md[c[1]][c[2]] # 0}}]

-----------------------------------------------------------------------------
(* draw_calendar_labels_dynamic *)

\* colors.get(row.Source, "black")
color(source) ==
    CASE source = "CMH116" -> "darkblue"
      [] source = "CMH120" -> "darkred"
      [] OTHER -> "black"

\* every label of a day at the first label's position
label_y_NoStacking(y_top, i) == y_top - date_padding

\* label_y = y_top - date_padding - i * line_height
label_y(y_top, i) == y_top - date_padding - i * line_height

\* the y handed to ax.text: label_y + 0.08 (top-aligned text)
text_y(y_top, i) == label_y(y_top, i) + LabelShift

draw_calendar_labels_dynamic(frame, y, m, lay) ==
    LET md == lay.month_days
    IN  UNION { LET tasks == Tasks(frame, y, m, md[c[1]][c[2]])
                IN  {[w |-> c[1], d |-> c[2], day |-> md[c[1]][c[2]],
                      i |-> i, idx |-> tasks[i + 1],
                      label_y |-> label_y(lay.week_tops[c[1]], i),
                      y |-> text_y(lay.week_tops[c[1]], i),
                      s |-> frame[tasks[i + 1]].TaskLabel,
                      color |-> color(frame[tasks[i + 1]].Source)] :
                        i \in 0..(Len(tasks) - 1)} :
                c \in {c \in (1..Len(md)) \X (1..7) : md[c[1]][c[2]] # 0} }

-----------------------------------------------------------------------------
(* Inputs *)

MaxCatLen == 3
MaxLoadRows == 2
MaxRows1 == 2
MaxRows2 == 1
MaxBurst == 5

SeqsUpTo(S, n) == UNION {[1..k -> S] : k \in 0..n}

\* no two adjacent word tokens: the tokens of a string are maximal runs
WellFormed(s) == \A j \in 1..(Len(s) - 1) : ~(IsWord(s[j]) /\ IsWord(s[j + 1]))

LabelTokens ==
    {"SWITCHGEAR", "switchgear", "SWGR", "LV", "MV", "GENERATOR", "PANELS",
     "MARS", "STANDBY", SP, TAB, DOT}

Categories == {s \in SeqsUpTo(LabelTokens, MaxCatLen) : WellFormed(s)}

UnitTags ==
    {<<>>, ALL_UNITS, <<"1", DOT, "3A">>, <<"SWITCHGEAR">>, <<"SWGR">>, <<"LV">>,
     <<"TRANSFORMER", SP, "gen">>}

NoLayout ==
    [month_days |-> <<>>, tasks_per_day |-> <<>>, max_tasks_per_week |-> <<>>,
     week_heights |-> <<>>, week_tops |-> <<>>, rects |-> {}]

\* the rows a workbook of the loader specification may hold
LoadCats ==
    {NaN, <<"GENERATOR">>, <<"Phase">>, <<"PHASE", SP, "12">>, <<"MV", SP, "SWITCHGEAR">>}

LoadUnits == {NaN, ALL_UNITS, <<"3">>, <<"3A">>}

LoadDates ==
    {DateCell("nan", 0, 0, 0, 0), DateCell("bad", 0, 0, 0, 0), DateCell("ts", 2024, 2, 14, 0)}

LoadRows == {Row(c, u, dt) : c \in LoadCats, u \in LoadUnits, dt \in LoadDates}

\* the rows a workbook of the pipeline specification may hold
BusyRow == Row(<<"MARS">>, ALL_UNITS, DateCell("ts", 2024, 2, 14, 0))

PipelineRows ==
    {BusyRow,
     Row(<<"MARS">>, ALL_UNITS, DateCell("ts", 2024, 2, 14, 870)),
     Row(<<"LV", SP, "SWITCHGEAR">>, <<"1", DOT, "3A">>, DateCell("ts", 2024, 2, 29, 0)),
     Row(<<"Phase">>, <<"3">>, DateCell("ts", 2024, 2, 14, 0))}

Burst(n) == [k \in 1..n |-> BusyRow]

\* the (year, month) pairs the user may pick: 5, 6 and 4 week-rows
TargetMonths == {<<2024, 2>>, <<2025, 3>>, <<2026, 2>>}

-----------------------------------------------------------------------------
(* Label specification: the TaskLabel of one row *)

InitLabel ==
    /\ pc = "start"
    /\ category \in Categories
    /\ unitTag \in UnitTags
    /\ label = <<>>
    /\ table1 = <<>> /\ table2 = <<>> /\ df = <<>>
    /\ year = 0 /\ month = 0 /\ layout = NoLayout /\ texts = {}

\* lines 47-56 of load_calendar_data for one row
Normalize ==
    /\ pc = "start"
    /\ label' = TaskLabel(category, ReplaceAllUnits(unitTag))
    /\ pc' = "done"
    /\ UNCHANGED <<category, unitTag, table1, table2, df, year, month, layout, texts>>

NextLabel == Normalize

SpecLabel == InitLabel /\ [][NextLabel]_vars

-----------------------------------------------------------------------------
(* Loader specification: load_calendar_data on one workbook *)

InitLoad ==
    /\ pc = "start"
    /\ table1 \in SeqsUpTo(LoadRows, MaxLoadRows)
    /\ table2 = <<>> /\ df = <<>>
    /\ category = <<>> /\ unitTag = <<>> /\ label = <<>>
    /\ year = 0 /\ month = 0 /\ layout = NoLayout /\ texts = {}

LoadCalendarData(source_label) ==
    /\ pc = "start"
    /\ df' = load_calendar_data(table1, source_label)
    /\ pc' = "loaded"
    /\ UNCHANGED <<category, unitTag, label, table1, table2, year, month, layout, texts>>

NextLoad == \E source_label \in {"CMH116", "CMH120"} : LoadCalendarData(source_label)

SpecLoad == InitLoad /\ [][NextLoad]_vars

-----------------------------------------------------------------------------
(* Pipeline specification: calendar_app *)

Init ==
    /\ pc = "start"
    /\ \E prefix \in SeqsUpTo(PipelineRows, MaxRows1), n \in 0..MaxBurst :
          table1 = prefix \o Burst(n)
    /\ table2 \in SeqsUpTo(PipelineRows, MaxRows2)
    /\ df = <<>>
    /\ category = <<>> /\ unitTag = <<>> /\ label = <<>>
    /\ year = 0 /\ month = 0 /\ layout = NoLayout /\ texts = {}

\* df = load_all_sources()
LoadAllSources ==
    /\ pc = "start"
    /\ df' = load_all_sources(table1, table2)
    /\ pc' = "loaded"
    /\ UNCHANGED <<category, unitTag, label, table1, table2, year, month, layout, texts>>

\* the "Generate Calendar" button: generate_calendar(df, year, month)
GenerateCalendar(y, m) ==
    /\ pc \in {"loaded", "rendered"}
    /\ year' = y
    /\ month' = m
    /\ layout' = draw_calendar_base_dynamic(df, y, m)
    /\ texts' = draw_calendar_labels_dynamic(df, y, m, layout')
    /\ pc' = "rendered"
    /\ UNCHANGED <<category, unitTag, label, table1, table2, df>>

Next ==
    \/ LoadAllSources
    \/ \E ym \in TargetMonths : GenerateCalendar(ym[1], ym[2])

Spec == Init /\ [][Next]_vars

-----------------------------------------------------------------------------
(* Claims about the label normaliser (SpecLabel) *)

HasAdjacent(s, a, b) ==
    \E j \in 1..(Len(s) - 2) : s[j] = a /\ IsSpace(s[j + 1]) /\ s[j + 2] = b

\* C7: the label of (category, unitTag) is what the ten rules, applied one
\* after the other to the joined text, and the final whitespace clean-up
\* leave: "MV SWITCHGEAR" + "1.3A" gives "MV SWGR 1.3A", "STANDBY GENERATOR"
\* with an emptied unit tag gives "STANDBY", a rule works on the output of an
\* earlier one ("SWITCHGEAR SWITCHGEAR" gives "SWGR", "MARS" gives "Racking"),
\* no replaced or deleted word is left, and the label has single spaces only
\* and none at either end.
C7_LabelDerivation ==
    pc = "done" =>
        /\ (category = <<"MV", SP, "SWITCHGEAR">> /\ unitTag = <<"1", DOT, "3A">>)
              => label = <<"MV", SP, "SWGR", SP, "1", DOT, "3A">>
        /\ (category = <<"STANDBY", SP, "GENERATOR">> /\ unitTag \in {<<>>, ALL_UNITS})
              => label = <<"STANDBY">>
        /\ (category = <<"SWITCHGEAR", SP, "SWITCHGEAR">> /\ unitTag = <<>>)
              => label = <<"SWGR">>
        /\ (category = <<"LV", SP, "SWITCHGEAR">> /\ unitTag = <<"SWGR">>)
              => label = <<"LV", SP, "SWGR">>
        /\ (category = <<"MARS">> /\ unitTag = <<"LV">>)
              => label = <<"Racking", SP, "LV">>
        /\ (WellFormed(category) /\ WellFormed(unitTag)) =>
              \A j \in 1..Len(label) :
                  Fold(label[j]) \notin
                      {"SWITCHGEAR", "GENERATOR", "TRANSFORMER", "PANELS", "MARS"}
        /\ \A j \in 1..Len(label) : label[j] # TAB
        /\ \A j \in 1..(Len(label) - 1) : ~(label[j] = SP /\ label[j + 1] = SP)
        /\ label # <<>> => (label[1] # SP /\ label[Len(label)] # SP)

C7_Witness ==
    /\ pc = "done"
    /\ category = <<"MV", SP, "SWITCHGEAR">>
    /\ unitTag = <<"1", DOT, "3A">>
    /\ label = <<"MV", SP, "SWGR", SP, "1", DOT, "3A">>

\* the input is single-spaced text without a literal SWGR and without two
\* adjacent LV words: every SWGR of the label was produced by a rule, and
\* every adjacency of the label was produced by a rule
RuleVocabularyInput ==
    LET txt == category \o <<SP>> \o ReplaceAllUnits(unitTag)
    IN  /\ \A j \in 1..Len(txt) : txt[j] \notin {TAB, DOT, "SWGR"}
        /\ WellFormed(txt)
        /\ \A j \in 1..(Len(txt) - 1) : ~(txt[j] = SP /\ txt[j + 1] = SP)
        /\ ~HasAdjacent(txt, "LV", "LV")

\* C8: for a label built from the rule vocabulary, clean_label leaves no two
\* adjacent SWGR words and no two adjacent LV words produced by the earlier
\* substitution and deletion rules.
C8_NoAdjacentDuplicates ==
    (pc = "done" /\ RuleVocabularyInput) =>
        /\ ~HasAdjacent(label, "SWGR", "SWGR")
        /\ ~HasAdjacent(label, "LV", "LV")

-----------------------------------------------------------------------------
(* Claims about the loader (SpecLoad) *)

\* C5: every record that survives load_calendar_data has a parsed date and a
\* non-empty label.
C5_DateAndLabelPresent ==
    \A k \in 1..Len(df) : df[k].date.kind = "ts" /\ df[k].TaskLabel # <<>>

PhaseLabels ==
    {<<p, SP, n>> : p \in {"Phase", "PHASE", "phase"}, n \in {"1", "3", "12"}}

\* C6: no loaded record has a label "Phase <digits>" (any case), and the
\* Phase filter removes nothing else: the loaded records are exactly the rows
\* with all three fields present, a date that parses and a label that is not
\* "Phase <digits>" ("Phase 3A" stays), in workbook order.
C6_PhaseFilter ==
    pc = "loaded" =>
        LET Valid(r) == /\ r.cat # NaN /\ r.unit # NaN /\ r.date.kind = "ts"
                        /\ TaskLabel(r.cat, ReplaceAllUnits(r.unit)) \notin PhaseLabels
            kept == SelectSeq(table1, Valid)
        IN  /\ \A k \in 1..Len(df) : df[k].TaskLabel \notin PhaseLabels
            /\ Len(df) = Len(kept)
            /\ \A k \in 1..Len(df) :
                  /\ df[k].cat = kept[k].cat
                  /\ df[k].date = kept[k].date
                  /\ df[k].TaskLabel = TaskLabel(kept[k].cat, ReplaceAllUnits(kept[k].unit))

C6_Witness ==
    /\ pc = "loaded"
    /\ Len(table1) = 2
    /\ table1[1] = Row(<<"Phase">>, <<"3">>, DateCell("ts", 2024, 2, 14, 0))
    /\ table1[2] = Row(<<"Phase">>, <<"3A">>, DateCell("ts", 2024, 2, 14, 0))
    /\ Len(df) = 1
    /\ df[1].TaskLabel = <<"Phase", SP, "3A">>

-----------------------------------------------------------------------------
(* Claims about layout and rendering (Spec) *)

Weeks == 1..Len(layout.month_days)

PresentDays(w) == {d \in 1..7 : layout.month_days[w][d] # 0}

\* the rows of df whose timestamp is midnight of the given day of the
\* rendered month
AtMidnightOf(day) ==
    {k \in 1..Len(df) : df[k].date = DateCell("ts", year, month, day, 0)}

\* the rows of df whose calendar date is the given day of the rendered month
OnDay(day) ==
    {k \in 1..Len(df) :
        df[k].date.y = year /\ df[k].date.m = month /\ df[k].date.d = day}

CellTexts(w, d) == {t \in texts : t.w = w /\ t.d = d}

\* the largest per-day count of week-row w, 0 if there is none
WeekMax(w) ==
    LET counts == {Cardinality(AtMidnightOf(layout.month_days[w][d])) : d \in PresentDays(w)}
    IN  IF counts = {} THEN 0 ELSE CHOOSE c \in counts : \A e \in counts : e <= c

\* C1: the height of every week-row is max(defaultHeight, datePadding +
\* max(0, weekMax-1)*lineHeight + fixedMargin); it is defaultHeight for
\* weekMax = 0 and at least datePadding + 4*lineHeight + fixedMargin and at
\* least defaultHeight for weekMax = 5.
C1_RowHeight ==
    pc = "rendered" =>
        \A w \in Weeks :
            LET h == layout.week_heights[w]
                m == WeekMax(w)
                need == date_padding + (IF m >= 1 THEN m - 1 ELSE 0) * line_height + FixedMargin
            IN  /\ h = (IF need > default_height THEN need ELSE default_height)
                /\ m = 0 => h = default_height
                /\ m = 5 => (h >= date_padding + 4 * line_height + FixedMargin
                             /\ h >= default_height)

C1_Witness ==
    /\ pc = "rendered"
    /\ \E w \in Weeks : WeekMax(w) = 0 /\ layout.week_heights[w] = default_height
    /\ \E w \in Weeks : WeekMax(w) >= 7 /\ layout.week_heights[w] > default_height

\* C2: the labels of a day are stacked lineHeight apart, at pairwise distinct
\* heights, and every one of them lies between the top and the bottom of the
\* rectangle drawn for its cell, above the top of the next week-row.
C2_LabelsInsideCell ==
    pc = "rendered" =>
        \A t \in texts :
            \E r \in layout.rects :
                /\ r.w = t.w /\ r.d = t.d
                /\ t.y <= r.top /\ t.y >= r.bottom
                /\ t.label_y <= r.top /\ t.label_y >= r.bottom
                /\ t.w < Len(layout.month_days) => t.y > layout.week_tops[t.w + 1]
                /\ \A u \in CellTexts(t.w, t.d) :
                      /\ u # t => u.y # t.y
                      /\ u.i = t.i + 1 => t.y - u.y = line_height

C2_Witness ==
    /\ pc = "rendered"
    /\ \E t \in texts : t.i >= 6 /\ layout.week_heights[t.w] > default_height

\* C3 as stated: the i-th record of a day is placed at
\* dayTop - datePadding - i*lineHeight.
C3_PlacedAtStackingOffset ==
    pc = "rendered" =>
        \A t \in texts :
            t.y = layout.week_tops[t.w] - date_padding - t.i * line_height

\* C3 as amended: the i-th record of a day, in dataframe order, has stacking
\* offset label_y = dayTop - datePadding - i*lineHeight, and its text is
\* anchored at label_y + 0.08.
C3_StackingOffset ==
    pc = "rendered" =>
        \A t \in texts :
            LET top == layout.week_tops[t.w]
                day == layout.month_days[t.w][t.d]
            IN  /\ t.idx \in AtMidnightOf(day)
                /\ t.i = Cardinality({k \in AtMidnightOf(day) : k < t.idx})
                /\ t.s = df[t.idx].TaskLabel
                /\ t.label_y = top - date_padding - t.i * line_height
                /\ t.y = top - date_padding - t.i * line_height + LabelShift

C3_Witness ==
    /\ pc = "rendered"
    /\ \E t, u \in texts :
          /\ t.w = u.w /\ t.d = u.d
          /\ t.i = 2 /\ u.i = 1
          /\ t.idx > u.idx
          /\ t.color # u.color

\* C4: the dataframe is the CMH116 records followed by the CMH120 records,
\* nothing merged; and when each source has exactly one record on a day of
\* the rendered month, that day's cell holds exactly two labels, the CMH116
\* one dark blue and the CMH120 one dark red.
C4_TwoSourcesTwoLabels ==
    pc = "rendered" =>
        /\ df = load_calendar_data(table1, "CMH116") \o load_calendar_data(table2, "CMH120")
        /\ \A w \in Weeks : \A d \in PresentDays(w) :
              LET day == layout.month_days[w][d]
                  A == {k \in OnDay(day) : df[k].Source = "CMH116"}
                  B == {k \in OnDay(day) : df[k].Source = "CMH120"}
              IN  (Cardinality(A) = 1 /\ Cardinality(B) = 1) =>
                      /\ Cardinality(CellTexts(w, d)) = 2
                      /\ \E t \in CellTexts(w, d) : t.idx \in A /\ t.color = "darkblue"
                      /\ \E t \in CellTexts(w, d) : t.idx \in B /\ t.color = "darkred"

\* C9 as stated: the top of week-row k+1 lies the fixed gap below the bottom
\* of week-row k.
C9_GapBetweenRows ==
    pc = "rendered" =>
        \A w \in Weeks :
            (w + 1) \in Weeks =>
                layout.week_tops[w + 1]
                    = (layout.week_tops[w] - layout.week_heights[w]) - TopGap

\* C9 as amended: the fixed gap lies once above the first week-row; the top of
\* week-row k+1 is the bottom of week-row k, so the rectangles of different
\* rows share at most an edge, and the top of row k+1 is fixed by the heights
\* of rows 0..k.
C9_RowsAbut ==
    pc = "rendered" =>
        /\ layout.week_tops[1] = -TopGap
        /\ \A w \in Weeks :
              (w + 1) \in Weeks =>
                  /\ layout.week_tops[w + 1] = layout.week_tops[w] - layout.week_heights[w]
                  /\ layout.week_tops[w + 1] = -(SeqSum(layout.week_heights, w) + TopGap)
        /\ \A r, q \in layout.rects :
              /\ r.bottom = r.top - layout.week_heights[r.w]
              /\ r.w < q.w => q.top <= r.bottom
              /\ r.w + 1 = q.w => q.top = r.bottom

C9_Witness ==
    /\ pc = "rendered"
    /\ \E w \in Weeks :
          /\ (w + 1) \in Weeks
          /\ layout.week_heights[w] > default_height
          /\ layout.week_tops[w + 1] = layout.week_tops[w] - layout.week_heights[w]

\* C10: every loaded record dated on a day of the rendered month, whatever its
\* time of day, is drawn as exactly one label in the cell of its day; no
\* record dated outside the month is drawn; and each cell holds as many labels
\* as the count that sized its row.
C10_EveryRecordDrawnOnce ==
    pc = "rendered" =>
        /\ \A k \in 1..Len(df) :
              (df[k].date.y = year /\ df[k].date.m = month) =>
                  /\ Cardinality({t \in texts : t.idx = k}) = 1
                  /\ \A t \in texts : t.idx = k => t.day = df[k].date.d
        /\ \A t \in texts : df[t.idx].date.y = year /\ df[t.idx].date.m = month
        /\ \A w \in Weeks : \A d \in PresentDays(w) :
              Cardinality(CellTexts(w, d)) = layout.tasks_per_day[w][d]

====
